---- MODULE Spec2Model ----
(***************************************************************************)
(* The Sudoku engine of src/App.tsx: generateSudoku (generateSolvedBoard   *)
(* with solveBoardRandomly, then createPuzzle with countSolutions) and     *)
(* solveSudoku (solveBoard).                                               *)
(*                                                                         *)
(* Boards are 9x9, indexed board[row][col] with row, col in 0..8 as in the *)
(* source.  The recursive functions are run on an explicit call stack, one *)
(* frame per invocation that is inside its digit loop, and an action runs  *)
(* a call to its return.                                                   *)
(***************************************************************************)
EXTENDS Integers, Sequences, FiniteSets, TLC

----------------------------------------------------------------------------
(* Program constants.                                                      *)

Size == 9                      \* rows, columns, digits
BoxSize == 3                   \* side of a box
EasyClues == 41                \* targetClues of the uniqueness-checking variant
MediumClues == 31
HardClues == 26
maxConsecutiveFailures == 10
EasyRemoved == 40              \* cellsToRemove of the fixed-removal variant
MediumRemoved == 50
HardRemoved == 60
Null == -1                     \* the null of (number | null)[][]: a blank cell

(* Bounds of the model.                                                    *)

NumDigitOrders == 2      \* outcomes of the digit shuffle that are explored
ShuffledCells == 1       \* cells 0 .. ShuffledCells-1 draw a shuffled order
NumPositionOrders == 1   \* outcomes of the position shuffle that are explored
MaxBlanks == 9           \* blank cells of the boards handed to the solver
RunDoublings == 20       \* a call is run for at most 2^RunDoublings steps
NumPlacedDigits == 2     \* digits handed to the placement tests

Idx == 0 .. (Size - 1)
Digits == 1 .. Size
Difficulties == {"easy", "medium", "hard"}

----------------------------------------------------------------------------
(* Pure functions of the source.                                           *)

EmptyBoard == [row \in Idx |-> [col \in Idx |-> 0]]

\* The first cell holding 0 in row-major order, << >> (null) when there is none.
findEmptyCell(board) ==
    LET rows == { row \in Idx : \E col \in Idx : board[row][col] = 0 }
    IN  IF rows = {} THEN << >>
        ELSE LET row == CHOOSE r \in rows : \A j \in rows : r <= j
                 cols == { col \in Idx : board[row][col] = 0 }
             IN  << row, CHOOSE c \in cols : \A j \in cols : c <= j >>

isValidPlacementNoBox(board, row, col, num) ==
    /\ \A i \in Idx : board[row][i] # num
    /\ \A i \in Idx : board[i][col] # num

isValidPlacementNoColumn(board, row, col, num) ==
    LET boxRow == (row \div BoxSize) * BoxSize
        boxCol == (col \div BoxSize) * BoxSize
    IN  /\ \A i \in Idx : board[row][i] # num
        /\ \A i \in 0 .. (BoxSize - 1) : \A j \in 0 .. (BoxSize - 1) :
              board[boxRow + i][boxCol + j] # num

isValidPlacement(board, row, col, num) ==
    LET boxRow == (row \div BoxSize) * BoxSize
        boxCol == (col \div BoxSize) * BoxSize
    IN  /\ \A i \in Idx : board[row][i] # num
        /\ \A i \in Idx : board[i][col] # num
        /\ \A i \in 0 .. (BoxSize - 1) : \A j \in 0 .. (BoxSize - 1) :
              board[boxRow + i][boxCol + j] # num

\* isValidSudokuPlacement of the board component: the cell (row, col) itself
\* is left out of the three tests.
isValidSudokuPlacementWithSelf(board, row, col, num) ==
    isValidPlacement(board, row, col, num)

isValidSudokuPlacement(board, row, col, num) ==
    LET boxRow == (row \div BoxSize) * BoxSize
        boxCol == (col \div BoxSize) * BoxSize
    IN  /\ \A i \in Idx : ~(i # col /\ board[row][i] = num)
        /\ \A i \in Idx : ~(i # row /\ board[i][col] = num)
        /\ \A i \in 0 .. (BoxSize - 1) : \A j \in 0 .. (BoxSize - 1) :
              ~(/\ (boxRow + i # row \/ boxCol + j # col)
                /\ board[boxRow + i][boxCol + j] = num)

\* checkSolution from cell k on, row by row: false at the first cell where
\* board and solution differ, true when there is none.
RECURSIVE checkSolutionFrom(_, _, _)
checkSolutionFrom(board, solution, k) ==
    IF k >= Size * Size THEN TRUE
    ELSE IF board[k \div Size][k % Size] # solution[k \div Size][k % Size] THEN FALSE
    ELSE checkSolutionFrom(board, solution, k + 1)

checkSolutionFirstRow(board, solution) ==
    \A col \in Idx : board[0][col] = solution[0][col]

checkSolution(board, solution) == checkSolutionFrom(board, solution, 0)

\* for (const num of nums) that gives up at the first digit rejected.
SkipInvalidFirstOnly(board, row, col, nums) ==
    IF nums = << >> THEN << >>
    ELSE IF isValidPlacement(board, row, col, Head(nums)) THEN nums
    ELSE << >>

\* The digits of nums from the first one that may be placed at (row, col):
\* for (const num of nums) passes over the digits isValidPlacement rejects.
RECURSIVE SkipInvalid(_, _, _, _)
SkipInvalid(board, row, col, nums) ==
    IF nums = << >> THEN << >>
    ELSE IF isValidPlacement(board, row, col, Head(nums)) THEN nums
    ELSE SkipInvalid(board, row, col, Tail(nums))

\* The last digit from num upward that may be placed at (row, col).
NextValidFromTop(board, row, col, num) ==
    LET valid == { d \in num .. Size : isValidPlacement(board, row, col, d) }
    IN  IF valid = {} THEN Size + 1
        ELSE CHOOSE d \in valid : \A x \in valid : x <= d

\* The first digit from num upward that may be placed at (row, col), Size + 1
\* when there is none: for (...; num <= 9; num++) passing over rejected digits.
RECURSIVE NextValid(_, _, _, _)
NextValid(board, row, col, num) ==
    IF num > Size THEN num
    ELSE IF isValidPlacement(board, row, col, num) THEN num
    ELSE NextValid(board, row, col, num + 1)

\* board[row][col] = num
Placed(board, row, col, num) == [board EXCEPT ![row][col] = num]

\* board[row][col] = 0 after a recursive call that failed.
ClearedNot(board, row, col) == board

Cleared(board, row, col) == [board EXCEPT ![row][col] = 0]

\* Convert null values to 0 for the solving algorithms.
convertBoardForSolving(b) ==
    [row \in Idx |-> [col \in Idx |-> IF b[row][col] = Null THEN 0 ELSE b[row][col]]]

\* solveSudoku's own conversion of its argument.
solverBoardOfSwapped(b) ==
    [row \in Idx |-> [col \in Idx |-> IF b[row][col] = Null THEN b[row][col] ELSE 0]]

solverBoardOf(b) ==
    [row \in Idx |-> [col \in Idx |-> IF b[row][col] = Null THEN 0 ELSE b[row][col]]]

\* if (solveBoard(solverBoard)) return solverBoard; return null (<< >>)
solveSudokuResultInverted(solved, solverBoard) ==
    IF solved THEN << >> ELSE solverBoard

solveSudokuResult(solved, solverBoard) ==
    IF solved THEN solverBoard ELSE << >>

\* Whether an array is the caller's own array, given whether the array it
\* was made from is.  const boardCopy = board.map((row) => [...row]): new
\* rows in a new array.
boardCopyIsBoard(shares) == shares

boardCopyShares(shares) == FALSE

\* const solverBoard = board.map((row) => row.map(...)): new rows in a new
\* array.
solverBoardIsBoard(shares) == shares

solverBoardShares(shares) == FALSE

\* const puzzle = JSON.parse(JSON.stringify(solvedBoard)): a new value.
puzzleIsSolvedBoard(shares) == shares

puzzleShares(shares) == FALSE

\* The caller's array after array[row][col] = v, array being the caller's
\* own array (shares) or another one.
Through(shares, caller, row, col, v) ==
    IF shares THEN Placed(caller, row, col, v) ELSE caller

\* if (count > 1) return count
StopCountingAtOne(count) == count >= 1

StopCountingAtThree(count) == count > 2

StopCounting(count) == count > 1

\* puzzle[row][col] = null
BlankedAsZero(puz, row, col) == [puz EXCEPT ![row][col] = 0]

Blanked(puz, row, col) == [puz EXCEPT ![row][col] = Null]

\* if (solutionCount === 1): the removal is kept
RemovalKeptIfSolvable(solutionCount) == solutionCount >= 1

RemovalKept(solutionCount) == solutionCount = 1

\* The key `${row},${col}` of a position in triedPositions.
PositionKey(row, col) == << row, ",", col >>

\* The first position of positions[from ..] that was not tried and is not
\* blank in the puzzle, << >> (undefined) when there is none.
RECURSIVE FirstNotBlank(_, _, _, _)
FirstNotBlank(positions, tried, puz, from) ==
    IF from > Len(positions) THEN << >>
    ELSE IF puz[positions[from][1]][positions[from][2]] # Null
         THEN positions[from]
    ELSE FirstNotBlank(positions, tried, puz, from + 1)

RECURSIVE FirstUntried(_, _, _, _)
FirstUntried(positions, tried, puz, from) ==
    IF from > Len(positions) THEN << >>
    ELSE IF /\ PositionKey(positions[from][1], positions[from][2]) \notin tried
            /\ puz[positions[from][1]][positions[from][2]] # Null
         THEN positions[from]
    ELSE FirstUntried(positions, tried, puz, from + 1)

TargetClues(d) ==
    CASE d = "easy" -> EasyClues
      [] d = "medium" -> MediumClues
      [] d = "hard" -> HardClues
      [] OTHER -> MediumClues

CellsToRemoveAsClues(d) == TargetClues(d)

CellsToRemove(d) ==
    CASE d = "easy" -> EasyRemoved
      [] d = "medium" -> MediumRemoved
      [] d = "hard" -> HardRemoved
      [] OTHER -> MediumRemoved

----------------------------------------------------------------------------
(* Outcomes of the random shuffles, and the boards handed to the solver.   *)

Ascending == [i \in 1 .. Size |-> i]

\* An outcome of [1..9].sort(() => Math.random() - 0.5): the digits rotated by k.
DigitOrder(k) == [i \in 1 .. Size |-> ((i - 1 + k) % Size) + 1]

\* The digit orders the invocations may draw, one per cell: the invocations
\* at cells 0 .. ShuffledCells-1 draw a rotation, the others the ascending order.
ShuffleOutcomes ==
    { [k \in 0 .. (Size * Size - 1) |->
          IF k < ShuffledCells THEN DigitOrder(ks[k]) ELSE Ascending] :
      ks \in [0 .. (ShuffledCells - 1) -> 0 .. (NumDigitOrders - 1)] }

\* An outcome of positions.sort(() => Math.random() - 0.5): the 81 positions
\* taken with stride s from cell 0 (s is prime to 81, so each occurs once).
PositionOrder(s) ==
    [i \in 1 .. (Size * Size) |->
        << ((s * (i - 1)) % (Size * Size)) \div Size,
           ((s * (i - 1)) % (Size * Size)) % Size >>]

PositionStrides == << 53, 38, 8 >>

\* The 81 positions row by row, as the loops of createPuzzle push them.
RowMajor == [i \in 1 .. (Size * Size) |-> << (i - 1) \div Size, (i - 1) % Size >>]

\* The head of an outcome of the shuffle: thirty-two positions, then ten more.
StuckHead ==
    << <<0, 0>>, <<0, 1>>, <<0, 2>>, <<0, 3>>, <<0, 4>>, <<0, 5>>, <<0, 6>>,
       <<0, 7>>, <<0, 8>>, <<1, 0>>, <<1, 1>>, <<1, 2>>, <<2, 0>>, <<1, 3>>,
       <<2, 1>>, <<1, 4>>, <<2, 2>>, <<1, 5>>, <<3, 6>>, <<3, 7>>, <<4, 3>>,
       <<4, 4>>, <<4, 6>>, <<4, 7>>, <<4, 8>>, <<5, 0>>, <<5, 1>>, <<5, 5>>,
       <<5, 6>>, <<3, 3>>, <<3, 5>>, <<7, 5>>, <<2, 6>>, <<2, 7>>, <<2, 8>>,
       <<3, 4>>, <<3, 8>>, <<4, 0>>, <<4, 5>>, <<5, 2>>, <<5, 3>>, <<7, 3>> >>

NotInStuckHead(pos) == \A i \in 1 .. Len(StuckHead) : StuckHead[i] # pos

\* An outcome of the shuffle: StuckHead, then the other positions row by row.
StuckOrder == StuckHead \o SelectSeq(RowMajor, NotInStuckHead)

\* The outcomes of the shuffle that are explored.
PositionOrders ==
    { PositionOrder(PositionStrides[j]) :
        j \in { m \in 1 .. NumPositionOrders : m <= Len(PositionStrides) } }
    \cup { StuckOrder }

\* A solved grid: row r is the digits 1..9 shifted by 3 * (r % 3) + r \div 3.
BaseBoard ==
    [row \in Idx |-> [col \in Idx |->
        (((row % BoxSize) * BoxSize + (row \div BoxSize) + col) % Size) + 1]]

\* The cells blanked in the boards handed to the solver, in this order.
BlankOrder ==
    << <<0, 0>>, <<8, 1>>, <<1, 0>>, <<0, 3>>, <<1, 3>>, <<0, 6>>, <<1, 6>>,
       <<2, 0>>, <<2, 3>>, <<0, 1>>, <<0, 8>> >>

\* BaseBoard with its first n cells of BlankOrder blank and then, when e1 or
\* e2 is a digit, that digit given at (0, 0) or (0, 1).
InputBoard(n, e1, e2) ==
    [row \in Idx |-> [col \in Idx |->
        IF row = 0 /\ col = 0 /\ e1 # 0 THEN e1
        ELSE IF row = 0 /\ col = 1 /\ e2 # 0 THEN e2
        ELSE IF \E i \in 1 .. n : BlankOrder[i] = << row, col >> THEN Null
        ELSE BaseBoard[row][col]]]

InputBoards ==
    { InputBoard(n, e1, e2) :
        n \in { m \in 0 .. MaxBlanks : m <= Len(BlankOrder) },
        e1 \in 0 .. Size, e2 \in 0 .. Size }

----------------------------------------------------------------------------
(* The recursive functions, run on an explicit call stack.  A run m holds  *)
(* the function's name, the board it works on in place, the argument of    *)
(* the invocation being entered, the value last returned, and one frame    *)
(* per invocation that is inside its digit loop, innermost last.  m.ctl is *)
(* "call" when an invocation is being entered, "loop" when the top frame   *)
(* is in its digit loop, "ret" when an invocation has just returned.  A    *)
(* frame of solveBoard or solveBoardRandomly also remembers, in entry, the *)
(* board as it was when its invocation was entered.                        *)

Top(stack) == stack[Len(stack)]
Pop(stack) == SubSeq(stack, 1, Len(stack) - 1)
SetTop(stack, f) == [stack EXCEPT ![Len(stack)] = f]

\* The call fn(b); nums[k] is the outcome of the shuffle at cell k, and
\* assigned collects the cells the in-place solvers write.  caller is the
\* array the caller of fn holds, and shares tells whether the array passed
\* to the invocation being entered is that very array.
Call(fn, b, nums) ==
    [fn |-> fn, ctl |-> "call", stack |-> << >>, board |-> b, arg |-> b,
     returned |-> FALSE, count |-> 0, nums |-> nums, assigned |-> {},
     caller |-> b, shares |-> TRUE]

\* The outermost invocation has returned.
Finished(m) == m.ctl = "ret" /\ m.stack = << >>

\* solveBoardRandomly: on entry, scan for the first empty cell and shuffle;
\* in the loop, place the next valid digit and recurse, or return false;
\* when the recursive call comes back, return true or reset the cell.
solveBoardRandomly(m) ==
    IF m.ctl = "call"
    THEN LET e == findEmptyCell(m.board)
         IN  IF e = << >>
             THEN [m EXCEPT !.returned = TRUE, !.ctl = "ret"]
             ELSE [m EXCEPT
                     !.stack = Append(@, [row |-> e[1], col |-> e[2],
                                          nums |-> m.nums[e[1] * Size + e[2]],
                                          entry |-> m.board]),
                     !.ctl = "loop"]
    ELSE IF m.ctl = "loop"
    THEN LET f == Top(m.stack)
             rest == SkipInvalid(m.board, f.row, f.col, f.nums)
         IN  IF rest = << >>
             THEN [m EXCEPT !.stack = Pop(@), !.returned = FALSE, !.ctl = "ret"]
             ELSE [m EXCEPT
                     !.board = Placed(@, f.row, f.col, Head(rest)),
                     !.caller = Through(m.shares, @, f.row, f.col, Head(rest)),
                     !.stack = SetTop(@, [f EXCEPT !.nums = Tail(rest)]),
                     !.ctl = "call"]
    ELSE IF m.returned
    THEN [m EXCEPT !.stack = Pop(@)]
    ELSE [m EXCEPT !.board = Cleared(@, Top(m.stack).row, Top(m.stack).col),
                   !.caller = Through(m.shares, @, Top(m.stack).row,
                                      Top(m.stack).col, 0),
                   !.ctl = "loop"]

\* countSolutions: on entry, copy the board and find an empty cell; in the
\* loop, place the next valid digit in the copy and recurse on it, or return
\* count; when the recursive call comes back, add its value and return when
\* the count is above 1, else backtrack and go on with the next digit.
countSolutions(m) ==
    IF m.ctl = "call"
    THEN LET boardCopy == m.arg
             emptyCell == findEmptyCell(boardCopy)
         IN  IF emptyCell = << >>
             THEN [m EXCEPT !.count = 1, !.ctl = "ret"]
             ELSE [m EXCEPT
                     !.stack = Append(@, [boardCopy |-> boardCopy,
                                          shares |-> boardCopyShares(m.shares),
                                          row |-> emptyCell[1],
                                          col |-> emptyCell[2],
                                          num |-> 1, count |-> 0]),
                     !.ctl = "loop"]
    ELSE IF m.ctl = "loop"
    THEN LET f == Top(m.stack)
             num == NextValid(f.boardCopy, f.row, f.col, f.num)
         IN  IF num > Size
             THEN [m EXCEPT !.stack = Pop(@), !.count = f.count, !.ctl = "ret"]
             ELSE [m EXCEPT
                     !.stack = SetTop(@, [f EXCEPT
                         !.boardCopy = Placed(@, f.row, f.col, num),
                         !.num = num]),
                     !.caller = Through(f.shares, @, f.row, f.col, num),
                     !.arg = Placed(f.boardCopy, f.row, f.col, num),
                     !.shares = f.shares,
                     !.ctl = "call"]
    ELSE LET f == Top(m.stack)
             count == f.count + m.count
         IN  IF StopCounting(count)
             THEN [m EXCEPT !.stack = Pop(@), !.count = count]
             ELSE [m EXCEPT
                     !.stack = SetTop(@, [f EXCEPT
                         !.count = count,
                         !.boardCopy = Cleared(@, f.row, f.col),
                         !.num = @ + 1]),
                     !.caller = Through(f.shares, @, f.row, f.col, 0),
                     !.ctl = "loop"]

\* solveBoard: as solveBoardRandomly, with the digits tried from 1 to 9.
solveBoard(m) ==
    IF m.ctl = "call"
    THEN LET e == findEmptyCell(m.board)
         IN  IF e = << >>
             THEN [m EXCEPT !.returned = TRUE, !.ctl = "ret"]
             ELSE [m EXCEPT
                     !.stack = Append(@, [row |-> e[1], col |-> e[2], num |-> 1,
                                          entry |-> m.board]),
                     !.ctl = "loop"]
    ELSE IF m.ctl = "loop"
    THEN LET f == Top(m.stack)
             num == NextValid(m.board, f.row, f.col, f.num)
         IN  IF num > Size
             THEN [m EXCEPT !.stack = Pop(@), !.returned = FALSE, !.ctl = "ret"]
             ELSE [m EXCEPT
                     !.board = Placed(@, f.row, f.col, num),
                     !.caller = Through(m.shares, @, f.row, f.col, num),
                     !.assigned = @ \cup {<< f.row, f.col >>},
                     !.stack = SetTop(@, [f EXCEPT !.num = num + 1]),
                     !.ctl = "call"]
    ELSE IF m.returned
    THEN [m EXCEPT !.stack = Pop(@)]
    ELSE [m EXCEPT !.board = Cleared(@, Top(m.stack).row, Top(m.stack).col),
                   !.caller = Through(m.shares, @, Top(m.stack).row,
                                      Top(m.stack).col, 0),
                   !.assigned = @ \cup {<< Top(m.stack).row, Top(m.stack).col >>},
                   !.ctl = "loop"]

\* One step of the run m.
Step(m) ==
    CASE m.fn = "solveBoardRandomly" -> solveBoardRandomly(m)
      [] m.fn = "countSolutions" -> countSolutions(m)
      [] m.fn = "solveBoard" -> solveBoard(m)

\* The run m after 2^k more steps, or as it is when its outermost
\* invocation returns before that.
RECURSIVE Run(_, _)
Run(m, k) ==
    IF Finished(m) THEN m
    ELSE IF k = 0 THEN Step(m)
    ELSE Run(Run(m, k - 1), k - 1)

\* The run of fn(b) to its return.
Return(fn, b, nums) == Run(Call(fn, b, nums), RunDoublings)

\* The run to its return of fn(b), b made from the caller's array.
ReturnOn(fn, b, caller, shares) ==
    Run([Call(fn, b, << >>) EXCEPT !.caller = caller, !.shares = shares],
        RunDoublings)

----------------------------------------------------------------------------
VARIABLES
    pc,          \* the operation in progress
    difficulty,  \* argument of generateSudoku
    solution,    \* generateSudoku's solution
    puzzle,      \* createPuzzle's puzzle
    carve,       \* createPuzzle's locals
    count,       \* value returned by countSolutions
    input,       \* the board handed to solveSudoku / countSolutions
    result,      \* value returned by solveSudoku; << >> is null
    assigned,    \* the cells solveBoard wrote during the last solveSudoku
    running,     \* the call that is followed step by step, when one is
    pure,        \* a call of checkSolution or of a placement test
    ui           \* the state of the game component, when one is mounted

vars == << pc, difficulty, solution, puzzle, carve, count, input, result,
           assigned, running, pure, ui >>

\* No call is being followed.
NoRun == Call("none", EmptyBoard, << >>)

\* No game component is mounted.
NoUi == << >>

\* No call of checkSolution or of a placement test.
NoPure ==
    [board |-> EmptyBoard, solution |-> EmptyBoard, row |-> 0, col |-> 0,
     num |-> 0, returned |-> FALSE]

NoCarve ==
    [targetClues |-> 0, cellsToRemove |-> 0, positions |-> << >>,
     triedPositions |-> {}, currentClues |-> 0, consecutiveFailures |-> 0,
     position |-> << >>, valueBackup |-> 0, i |-> 0, shares |-> FALSE]

\* generateSudoku(difficulty) is called.
Init ==
    /\ pc = "generateSudoku"
    /\ difficulty \in Difficulties
    /\ solution = EmptyBoard
    /\ puzzle = EmptyBoard
    /\ carve = NoCarve
    /\ count = 0
    /\ input = EmptyBoard
    /\ result = << >>
    /\ assigned = {}
    /\ running = NoRun
    /\ pure = NoPure
    /\ ui = NoUi

\* A board is about to be handed to solveSudoku or to countSolutions.
InitSolve ==
    /\ pc = "ready"
    /\ difficulty = "medium"
    /\ solution = EmptyBoard
    /\ puzzle = EmptyBoard
    /\ carve = NoCarve
    /\ count = 0
    /\ input \in InputBoards
    /\ result = << >>
    /\ assigned = {}
    /\ running = NoRun
    /\ pure = NoPure
    /\ ui = NoUi

----------------------------------------------------------------------------
(* generateSudoku: generateSolvedBoard, then createPuzzle.                 *)

\* const solution = generateSolvedBoard(): solveBoardRandomly fills an empty
\* board in place; its boolean result is not looked at.
generateSolvedBoard ==
    /\ pc = "generateSudoku"
    /\ \E nums \in ShuffleOutcomes :
          LET run == Return("solveBoardRandomly", EmptyBoard, nums)
          IN  Finished(run) /\ solution' = run.board
    /\ pc' = "createPuzzle"
    /\ UNCHANGED << difficulty, puzzle, carve, count, input, result, assigned >>
    /\ UNCHANGED running
    /\ UNCHANGED << pure, ui >>

(* createPuzzle, the variant that checks uniqueness.                       *)

createPuzzle ==
    /\ pc = "createPuzzle"
    /\ puzzle' = solution
    /\ \E positions \in PositionOrders :
          carve' = [NoCarve EXCEPT !.targetClues = TargetClues(difficulty),
                                   !.positions = positions,
                                   !.currentClues = Size * Size,
                                   !.shares = puzzleShares(TRUE)]
    /\ pc' = "createPuzzle.while"
    /\ UNCHANGED << difficulty, solution, count, input, result, assigned >>
    /\ UNCHANGED running
    /\ UNCHANGED << pure, ui >>

WhileConditionInclusive ==
    /\ carve.currentClues >= carve.targetClues
    /\ Cardinality(carve.triedPositions) < Size * Size
    /\ carve.consecutiveFailures < maxConsecutiveFailures

WhileCondition ==
    /\ carve.currentClues > carve.targetClues
    /\ Cardinality(carve.triedPositions) < Size * Size
    /\ carve.consecutiveFailures < maxConsecutiveFailures

\* From the loop head through const solutionCount = countSolutions(...), or
\* out of the loop to the return of createPuzzle and of generateSudoku.
createPuzzleWhile ==
    /\ pc = "createPuzzle.while"
    /\ LET position == IF WhileCondition
                       THEN FirstUntried(carve.positions, carve.triedPositions, puzzle, 1)
                       ELSE << >>
       IN  IF position = << >>
           THEN /\ pc' = "generated"
                /\ UNCHANGED << puzzle, carve, count, solution, running >>
           ELSE /\ carve' = [carve EXCEPT
                               !.triedPositions = @ \cup {PositionKey(position[1], position[2])},
                               !.position = position,
                               !.valueBackup = puzzle[position[1]][position[2]]]
                /\ puzzle' = Blanked(puzzle, position[1], position[2])
                /\ solution' = Through(carve.shares, solution, position[1],
                                       position[2], Null)
                /\ LET boardForSolving == convertBoardForSolving(puzzle')
                       run == Return("countSolutions", boardForSolving, << >>)
                   IN  Finished(run) /\ count' = run.count /\ running' = run
                /\ pc' = "createPuzzle.count"
    /\ UNCHANGED << difficulty, input, result, assigned >>
    /\ UNCHANGED << pure, ui >>

\* if (solutionCount === 1): keep the removal, else put the value back.
createPuzzleDecide ==
    /\ pc = "createPuzzle.count"
    /\ LET solutionCount == count
           row == carve.position[1]
           col == carve.position[2]
       IN  IF RemovalKept(solutionCount)
           THEN /\ carve' = [carve EXCEPT !.currentClues = @ - 1,
                                          !.consecutiveFailures = 0]
                /\ puzzle' = puzzle
                /\ solution' = solution
           ELSE /\ puzzle' = [puzzle EXCEPT ![row][col] = carve.valueBackup]
                /\ solution' = Through(carve.shares, solution, row, col,
                                       carve.valueBackup)
                /\ carve' = [carve EXCEPT !.consecutiveFailures = @ + 1]
    /\ pc' = "createPuzzle.while"
    /\ UNCHANGED << difficulty, count, input, result, assigned >>
    /\ UNCHANGED running
    /\ UNCHANGED << pure, ui >>

(* createPuzzle, the variant that removes a fixed number of cells.         *)

createPuzzleFixed ==
    /\ pc = "createPuzzle"
    /\ puzzle' = solution
    /\ \E positions \in PositionOrders :
          carve' = [NoCarve EXCEPT !.cellsToRemove = CellsToRemove(difficulty),
                                   !.positions = positions,
                                   !.shares = puzzleShares(TRUE)]
    /\ pc' = "createPuzzleFixed.for"
    /\ UNCHANGED << difficulty, solution, count, input, result, assigned >>
    /\ UNCHANGED running
    /\ UNCHANGED << pure, ui >>

\* for (let i = 0; i < cellsToRemove; i++): positions is indexed from 1 here.
createPuzzleFixedFor ==
    /\ pc = "createPuzzleFixed.for"
    /\ IF carve.i < carve.cellsToRemove
       THEN /\ puzzle' = Blanked(puzzle, carve.positions[carve.i + 1][1],
                                 carve.positions[carve.i + 1][2])
            /\ solution' = Through(carve.shares, solution,
                                   carve.positions[carve.i + 1][1],
                                   carve.positions[carve.i + 1][2], Null)
            /\ carve' = [carve EXCEPT !.i = @ + 1]
            /\ pc' = pc
       ELSE /\ pc' = "generatedFixed"
            /\ UNCHANGED << puzzle, carve, solution >>
    /\ UNCHANGED << difficulty, count, input, result, assigned >>
    /\ UNCHANGED running
    /\ UNCHANGED << pure, ui >>

----------------------------------------------------------------------------
(* solveSudoku, and a call of countSolutions, on the puzzle that           *)
(* generateSudoku returned or on the board of InitSolve.                   *)

Given == IF pc = "generated" THEN puzzle ELSE input

\* solveSudoku(board): convert, run solveBoard on solverBoard in place, return
\* solverBoard or null.
solveSudoku ==
    /\ pc \in {"generated", "ready"}
    /\ input' = Given
    /\ LET solverBoard == solverBoardOf(Given)
           run == ReturnOn("solveBoard", solverBoard, Given,
                           solverBoardShares(TRUE))
       IN  /\ Finished(run)
           /\ running' = run
           /\ result' = solveSudokuResult(run.returned, run.board)
           /\ assigned' = run.assigned
    /\ pc' = "solved"
    /\ UNCHANGED << difficulty, solution, puzzle, carve, count >>
    /\ UNCHANGED << pure, ui >>

\* countSolutions(convertBoardForSolving(board)).
countSolutionsCall ==
    /\ pc \in {"generated", "ready"}
    /\ input' = Given
    /\ LET run == Return("countSolutions", convertBoardForSolving(Given), << >>)
       IN  Finished(run) /\ count' = run.count /\ running' = run
    /\ pc' = "counted"
    /\ UNCHANGED << difficulty, solution, puzzle, carve, result, assigned >>
    /\ UNCHANGED << pure, ui >>

----------------------------------------------------------------------------
Solving ==
    \/ solveSudoku
    \/ countSolutionsCall

Generating ==
    \/ generateSolvedBoard
    \/ createPuzzle
    \/ createPuzzleWhile
    \/ createPuzzleDecide
    \/ createPuzzleFixed
    \/ createPuzzleFixedFor

Next ==
    \/ Generating
    \/ Solving

\* generateSudoku, then solveSudoku and countSolutions on its puzzle.
Spec == Init /\ [][Next]_vars

\* solveSudoku and countSolutions on the boards of InputBoards.
SpecSolve == InitSolve /\ [][Solving]_vars

----------------------------------------------------------------------------
(* countSolutions on the boards of InputBoards, followed step by step: an  *)
(* entry of an invocation, a turn of its digit loop, or the return of a    *)
(* recursive call to the invocation that made it.                          *)

countSolutionsEnter ==
    /\ pc = "ready"
    /\ running' = Call("countSolutions", convertBoardForSolving(input), << >>)
    /\ pc' = "countSolutions"
    /\ UNCHANGED << difficulty, solution, puzzle, carve, count, input, result,
                    assigned >>
    /\ UNCHANGED << pure, ui >>

countSolutionsStep ==
    /\ pc = "countSolutions"
    /\ ~Finished(running)
    /\ running' = Step(running)
    /\ UNCHANGED << pc, difficulty, solution, puzzle, carve, count, input,
                    result, assigned >>
    /\ UNCHANGED << pure, ui >>

countSolutionsExit ==
    /\ pc = "countSolutions"
    /\ Finished(running)
    /\ count' = running.count
    /\ pc' = "counted"
    /\ UNCHANGED << difficulty, solution, puzzle, carve, input, result,
                    assigned, running >>
    /\ UNCHANGED << pure, ui >>

Counting ==
    \/ countSolutionsEnter
    \/ countSolutionsStep
    \/ countSolutionsExit

SpecCount == InitSolve /\ [][Counting]_vars

----------------------------------------------------------------------------
(* generateSolvedBoard followed step by step: an entry of an invocation of *)
(* solveBoardRandomly, a turn of its digit loop, or the return of a        *)
(* recursive call.  The program is one thread that runs each statement it  *)
(* reaches, so a step that can be taken is taken.                          *)

generateSolvedBoardEnter ==
    /\ pc = "generateSudoku"
    /\ \E nums \in ShuffleOutcomes :
          running' = Call("solveBoardRandomly", EmptyBoard, nums)
    /\ pc' = "generateSolvedBoard"
    /\ UNCHANGED << difficulty, solution, puzzle, carve, count, input, result,
                    assigned, pure, ui >>

solveBoardRandomlyStep ==
    /\ pc = "generateSolvedBoard"
    /\ ~Finished(running)
    /\ running' = Step(running)
    /\ UNCHANGED << pc, difficulty, solution, puzzle, carve, count, input,
                    result, assigned, pure, ui >>

generateSolvedBoardExit ==
    /\ pc = "generateSolvedBoard"
    /\ Finished(running)
    /\ solution' = running.board
    /\ pc' = "createPuzzle"
    /\ UNCHANGED << difficulty, puzzle, carve, count, input, result, assigned,
                    running, pure, ui >>

Filling ==
    \/ generateSolvedBoardEnter
    \/ solveBoardRandomlyStep
    \/ generateSolvedBoardExit

\* generateSudoku() is called: the difficulty is the default one.
InitFill == Init /\ difficulty = "medium"

SpecFill == InitFill /\ [][Filling]_vars /\ WF_vars(Filling)

----------------------------------------------------------------------------
(* solveSudoku on the boards of InputBoards with solveBoard followed step  *)
(* by step, as countSolutions and solveBoardRandomly are above.            *)

solveBoardEnter ==
    /\ pc = "ready"
    /\ running' = [Call("solveBoard", solverBoardOf(input), << >>)
                      EXCEPT !.caller = input,
                             !.shares = solverBoardShares(TRUE)]
    /\ pc' = "solveBoard"
    /\ UNCHANGED << difficulty, solution, puzzle, carve, count, input, result,
                    assigned, pure, ui >>

solveBoardStep ==
    /\ pc = "solveBoard"
    /\ ~Finished(running)
    /\ running' = Step(running)
    /\ UNCHANGED << pc, difficulty, solution, puzzle, carve, count, input,
                    result, assigned, pure, ui >>

solveBoardExit ==
    /\ pc = "solveBoard"
    /\ Finished(running)
    /\ result' = solveSudokuResult(running.returned, running.board)
    /\ assigned' = running.assigned
    /\ pc' = "solved"
    /\ UNCHANGED << difficulty, solution, puzzle, carve, count, input, running,
                    pure, ui >>

Backtracking ==
    \/ Filling
    \/ solveBoardEnter
    \/ solveBoardStep
    \/ solveBoardExit

\* generateSolvedBoard and solveSudoku, both step by step.
SpecBacktrack == (InitFill \/ InitSolve) /\ [][Backtracking]_vars

----------------------------------------------------------------------------
\* generateSudoku, solveSudoku on its puzzle and on the boards of
\* InputBoards, and countSolutions step by step on the boards of InputBoards.
InitEasy == Init /\ difficulty = "easy"

SpecAll ==
    (InitEasy \/ InitSolve) /\ [][Generating \/ solveSudoku \/ Counting]_vars
----------------------------------------------------------------------------
(* What the claims speak of: the rules of the game, stated on their own.   *)

Cells == Idx \X Idx

Rows == { { << row, col >> : col \in Idx } : row \in Idx }
Columns == { { << row, col >> : row \in Idx } : col \in Idx }
Boxes ==
    { { << BoxSize * a + i, BoxSize * b + j >> :
          i \in 0 .. (BoxSize - 1), j \in 0 .. (BoxSize - 1) } :
      a \in 0 .. (BoxSize - 1), b \in 0 .. (BoxSize - 1) }
Units == Rows \cup Columns \cup Boxes

At(g, c) == g[c[1]][c[2]]

\* Every row, column and box holds every digit exactly once.
IsValidGrid(g) ==
    /\ DOMAIN g = Idx
    /\ \A u \in Units : \A d \in Digits :
          Cardinality({ c \in u : At(g, c) = d }) = 1

IsFull(g) == \A c \in Cells : At(g, c) \in Digits

NumFilled(g) == Cardinality({ c \in Cells : At(g, c) \in Digits })

NumEmpty(g) == Cardinality({ c \in Cells : At(g, c) \notin Digits })

\* Two givens of one row, column or box are the same digit.
GivensConflict(g) ==
    \E u \in Units : \E c1 \in u : \E c2 \in u \ {c1} :
        At(g, c1) \in Digits /\ At(g, c1) = At(g, c2)

RowDuplicate(g) ==
    \E u \in Rows : \E c1 \in u : \E c2 \in u \ {c1} :
        At(g, c1) \in Digits /\ At(g, c1) = At(g, c2)

Peers(c) == UNION { u \in Units : c \in u } \ {c}

\* The valid grids that agree with g on its givens (g holds 0 at empty cells).
RECURSIVE Completions(_)

Filled(g, cell, d) ==
    [r \in Idx |-> [k \in Idx |-> IF <<r, k>> = cell THEN d ELSE g[r][k]]]

EmptyCells(g) == { c \in Cells : At(g, c) = 0 }

CompletionsAt(g, cell) ==
    UNION { Completions(Filled(g, cell, d)) :
              d \in Digits \ { At(g, p) : p \in Peers(cell) } }

Completions(g) ==
    IF EmptyCells(g) = {}
    THEN IF IsValidGrid(g) THEN {g} ELSE {}
    ELSE CompletionsAt(g, CHOOSE x \in EmptyCells(g) : TRUE)

Givens(b) == convertBoardForSolving(b)

\* Every non-blank cell of b holds the digit g holds there.
Within(b, g) == \A c \in Cells : At(b, c) # Null => At(b, c) = At(g, c)

----------------------------------------------------------------------------
(* checkSolution(board, solution) on a full grid and on what a player's    *)
(* board may be: the grid itself, or the grid with one cell holding        *)
(* another digit or blank; and on the grid against a solution with one     *)
(* cell holding another digit.                                             *)

OneCellChanged(g) ==
    { Filled(g, c, v) : c \in Cells, v \in (Digits \cup {Null}) }

CheckedPairs ==
    { << b, BaseBoard >> : b \in OneCellChanged(BaseBoard) }
    \cup { << BaseBoard, g >> : g \in { h \in OneCellChanged(BaseBoard) : IsFull(h) } }

InitCheck ==
    /\ pc = "checkSolution"
    /\ difficulty = "medium"
    /\ solution = EmptyBoard
    /\ puzzle = EmptyBoard
    /\ carve = NoCarve
    /\ count = 0
    /\ input = EmptyBoard
    /\ result = << >>
    /\ assigned = {}
    /\ running = NoRun
    /\ ui = NoUi
    /\ \E pair \in CheckedPairs :
          pure = [NoPure EXCEPT !.board = pair[1], !.solution = pair[2]]

checkSolutionCall ==
    /\ pc = "checkSolution"
    /\ pure' = [pure EXCEPT !.returned = checkSolution(pure.board, pure.solution)]
    /\ pc' = "checked"
    /\ UNCHANGED << difficulty, solution, puzzle, carve, count, input, result,
                    assigned, running, ui >>

SpecCheck == InitCheck /\ [][checkSolutionCall]_vars

----------------------------------------------------------------------------
(* The placement tests, isValidPlacement of the solver and                 *)
(* isValidSudokuPlacement of the board component, on a board, a position   *)
(* and a digit; the cell at the position is empty, holds the digit or      *)
(* holds the next digit.                                                   *)

\* A board with the one given d at cell c.
OneGiven(c, d) == Filled([row \in Idx |-> [col \in Idx |-> Null]], c, d)

PlacementBoards ==
    { InputBoard(n, 0, 0) : n \in { m \in 0 .. MaxBlanks : m <= Len(BlankOrder) } }
    \cup { OneGiven(c, 1) : c \in Cells }

\* What the cell at the position holds: nothing, num, the digit after num.
TargetValues(num) == { Null, num, (num % Size) + 1 }

\* The call with board b, position c holding v, and digit num.
PlacementCall(b, c, v, num) ==
    [NoPure EXCEPT !.board = Filled(b, c, v), !.row = c[1], !.col = c[2],
                   !.num = num]

InitPlace ==
    /\ difficulty = "medium"
    /\ solution = EmptyBoard
    /\ puzzle = EmptyBoard
    /\ carve = NoCarve
    /\ count = 0
    /\ input = EmptyBoard
    /\ result = << >>
    /\ assigned = {}
    /\ running = NoRun
    /\ ui = NoUi
    /\ \E b \in PlacementBoards, c \in Cells, num \in 1 .. NumPlacedDigits :
          \E v \in TargetValues(num) :
             \/ /\ pc = "isValidPlacement"
                /\ pure = PlacementCall(convertBoardForSolving(b), c,
                                        IF v = Null THEN 0 ELSE v, num)
             \/ /\ pc = "isValidSudokuPlacement"
                /\ pure = PlacementCall(b, c, v, num)

isValidPlacementCall ==
    /\ pc = "isValidPlacement"
    /\ pure' = [pure EXCEPT !.returned =
                    isValidPlacement(pure.board, pure.row, pure.col, pure.num)]
    /\ pc' = "isValidPlacement.return"
    /\ UNCHANGED << difficulty, solution, puzzle, carve, count, input, result,
                    assigned, running, ui >>

isValidSudokuPlacementCall ==
    /\ pc = "isValidSudokuPlacement"
    /\ pure' = [pure EXCEPT !.returned =
                    isValidSudokuPlacement(pure.board, pure.row, pure.col, pure.num)]
    /\ pc' = "isValidSudokuPlacement.return"
    /\ UNCHANGED << difficulty, solution, puzzle, carve, count, input, result,
                    assigned, running, ui >>

Placing ==
    \/ isValidPlacementCall
    \/ isValidSudokuPlacementCall

SpecPlace == InitPlace /\ [][Placing]_vars

----------------------------------------------------------------------------
(* C1: the solution generateSudoku returns is fully filled and each of its *)
(* rows, columns and boxes holds every digit exactly once, when            *)
(* generateSolvedBoard returns it and when generateSudoku returns; no step *)
(* of createPuzzle changes it.                                             *)
C1_SolutionValidAndKept ==
    [][ /\ IsFull(solution') /\ IsValidGrid(solution')
        /\ pc # "generateSudoku" => solution' = solution ]_vars

C1_Witness ==
    /\ pc = "generated"
    /\ IsValidGrid(solution)
    /\ \E c \in Cells : At(puzzle, c) = Null

(* C2: countSolutions applied to the puzzle that the uniqueness-checking   *)
(* generateSudoku returned, blanks mapped to 0, returns 1.                 *)
C2_PuzzleHasOneSolution ==
    (pc = "counted" /\ input = puzzle) => count = 1

C2_Witness ==
    /\ pc = "counted"
    /\ input = puzzle
    /\ count = 1
    /\ carve.currentClues > carve.targetClues

(* C3: at every step of carving and in the pair returned, in both variants *)
(* of createPuzzle, every non-blank puzzle cell holds the digit of the     *)
(* solution at that position.                                              *)
C3_PuzzleWithinSolution ==
    pc \notin {"generateSudoku", "createPuzzle"} => Within(puzzle, solution)

C3_Witness ==
    /\ pc = "createPuzzle.while"
    /\ carve.consecutiveFailures > 0
    /\ \E c \in Cells : At(puzzle, c) = Null
    /\ Within(puzzle, solution)

(* C4: solveSudoku applied to the puzzle that the uniqueness-checking      *)
(* generateSudoku returned gives a grid equal to the paired solution.      *)
C4_SolvePuzzleGivesSolution ==
    (pc = "solved" /\ input = puzzle) => result = solution

C4_Witness ==
    /\ pc = "solved"
    /\ input = puzzle
    /\ result = solution
    /\ difficulty = "hard"

(* C5: solveSudoku returns null for a board in which two givens of one row *)
(* are the same digit.                                                     *)
C5_RowDuplicateGivesNull ==
    (pc = "solved" /\ RowDuplicate(input)) => result = << >>

(* C6: for a board whose givens do not conflict, solveSudoku returns null  *)
(* exactly when no assignment of digits to the empty cells satisfies the   *)
(* row, column and box rules.                                              *)
C6_NullIffNoCompletion ==
    (pc = "solved" /\ ~GivensConflict(input))
        => (result = << >> <=> Completions(Givens(input)) = {})

C6_Witness ==
    /\ pc = "solved"
    /\ ~GivensConflict(input)
    /\ ~IsFull(input)
    /\ result = << >>

(* C7: for a board whose givens do not conflict, the search never changes  *)
(* a cell that was given, and a grid solveSudoku returns is fully filled,  *)
(* satisfies the row, column and box rules and holds every given.          *)
C7_SolvedGridValidAndKeepsGivens ==
    (pc = "solved" /\ ~GivensConflict(input))
        => /\ \A c \in assigned : At(input, c) = Null
           /\ result # << >>
                 => IsFull(result) /\ IsValidGrid(result) /\ Within(input, result)

C7_Witness ==
    /\ pc = "solved"
    /\ ~GivensConflict(input)
    /\ NumEmpty(input) > 1
    /\ Cardinality(assigned) > 1
    /\ result # << >>
    /\ Within(input, result)

(* C8: solveSudoku applied to a fully filled board returns a grid equal to *)
(* the board, cell for cell.                                               *)
C8_FullBoardReturnedAsIs ==
    (pc = "solved" /\ IsFull(input)) => result = input

C8_Witness ==
    /\ pc = "solved"
    /\ IsFull(input)
    /\ result = input

(* C11: once the count of an invocation of countSolutions, with the value  *)
(* a recursive call returned added to it, is 2 or more, the next step is   *)
(* the return of that invocation with this count, no digit tried and no    *)
(* cell entered; the invocation it returns to is then in the same case.    *)
C11_ShortCircuit ==
    [][ (/\ pc = "countSolutions"
         /\ running.ctl = "ret"
         /\ running.stack # << >>
         /\ Top(running.stack).count + running.count >= 2)
        => (/\ running'.ctl = "ret"
            /\ running'.stack = Pop(running.stack)
            /\ running'.count = Top(running.stack).count + running.count) ]_vars

C11_Witness ==
    /\ pc = "countSolutions"
    /\ running.ctl = "ret"
    /\ running.stack # << >>
    /\ running.count >= 2
    /\ NextValid(Cleared(Top(running.stack).boardCopy, Top(running.stack).row,
                         Top(running.stack).col),
                 Top(running.stack).row, Top(running.stack).col,
                 Top(running.stack).num + 1) <= Size

(* C12: the array a caller passed is, during and after the call, what it   *)
(* was before: the board given to solveSudoku when it has returned (a grid *)
(* or null), the grid given to countSolutions while it runs and when it    *)
(* has returned (early or not), in createPuzzle too; and no step of        *)
(* createPuzzle changes the solved grid it was given.                      *)
C12_CallerGridKept ==
    /\ pc = "solved" => running.caller = input
    /\ pc \in {"countSolutions", "counted"}
          => running.caller = convertBoardForSolving(input)
    /\ pc = "createPuzzle.count"
          => running.caller = convertBoardForSolving(puzzle)

C12_CallerGridsKept ==
    [][ C12_CallerGridKept' /\ (pc # "generateSudoku" => solution' = solution) ]_vars

C12_Witness ==
    /\ pc = "solved"
    /\ result = << >>
    /\ assigned # {}
    /\ running.caller = input

(* C9, as claimed: countSolutions returns an integer in 0 .. 2.            *)
C9_CountAtMostTwo ==
    pc = "counted" => count \in 0 .. 2

(* C9, amended: countSolutions returns an integer from 0 to the number of  *)
(* empty cells plus 1, which can be above 2, and, when the givens do not   *)
(* conflict, not above the number of valid completions.                    *)
C9_CountRange ==
    pc = "counted"
        => /\ count \in 0 .. (NumEmpty(input) + 1)
           /\ ~GivensConflict(input)
                 => count <= Cardinality(Completions(Givens(input)))

C9_Witness ==
    /\ pc = "counted"
    /\ ~GivensConflict(input)
    /\ count = 3

(* C10: for a board whose givens do not conflict, countSolutions returns 0 *)
(* when there is no valid completion, 1 when there is exactly one and a    *)
(* value above 1 when there are two or more.                               *)
C10_CountTellsUniqueness ==
    (pc = "counted" /\ ~GivensConflict(input))
        => LET n == Cardinality(Completions(Givens(input)))
           IN  /\ count = 0 <=> n = 0
               /\ count = 1 <=> n = 1
               /\ count > 1 <=> n >= 2

C10_Witness ==
    /\ pc = "counted"
    /\ ~GivensConflict(input)
    /\ count > 1
    /\ Cardinality(Completions(Givens(input))) > count
(* C13: the puzzle the uniqueness-checking generateSudoku returns has at   *)
(* most 81 filled cells and not fewer than the target of its difficulty   *)
(* (41, 31, 26); it has more than the target only if carving ended with    *)
(* all 81 positions tried or with 10 removals in a row failed.             *)
ClaimedTarget ==
    [easy |-> EasyClues, medium |-> MediumClues, hard |-> HardClues]

C13_CluesBetweenTargetAnd81 ==
    pc = "generated"
        => /\ NumFilled(puzzle) <= Size * Size
           /\ NumFilled(puzzle) >= ClaimedTarget[difficulty]
           /\ NumFilled(puzzle) > ClaimedTarget[difficulty]
                 => \/ Cardinality(carve.triedPositions) = Size * Size
                    \/ carve.consecutiveFailures = maxConsecutiveFailures

C13_Witness ==
    /\ pc = "generated"
    /\ difficulty = "hard"
    /\ NumFilled(puzzle) > HardClues
    /\ Cardinality(carve.triedPositions) = Size * Size
    /\ carve.consecutiveFailures < maxConsecutiveFailures

(* C14, as claimed: the uniqueness-checking generateSudoku("easy") returns *)
(* a puzzle with exactly 41 filled cells.                                  *)
C14_EasyHasExactly41 ==
    (pc = "generated" /\ difficulty = "easy") => NumFilled(puzzle) = EasyClues

(* C14, amended: the uniqueness-checking generateSudoku("easy") returns a  *)
(* puzzle with 41 filled cells when carving did not end on 10 failed       *)
(* removals in a row or on all positions tried, and with 41 or more, as    *)
(* many as currentClues says, when it did.                                 *)
C14_EasyHas41UnlessStuck ==
    (pc = "generated" /\ difficulty = "easy")
        => /\ NumFilled(puzzle) = carve.currentClues
           /\ carve.currentClues \in EasyClues .. (Size * Size)
           /\ (/\ carve.consecutiveFailures < maxConsecutiveFailures
               /\ Cardinality(carve.triedPositions) < Size * Size)
                 => carve.currentClues = EasyClues

C14_Witness ==
    /\ pc = "generated"
    /\ difficulty = "easy"
    /\ NumFilled(puzzle) > EasyClues
    /\ carve.consecutiveFailures = maxConsecutiveFailures
    /\ Cardinality(carve.triedPositions) < Size * Size
(* C15: the puzzle the fixed-removal generateSudoku returns has exactly    *)
(* 81 - N filled cells, N being 40 for easy, 50 for medium and 60 for      *)
(* hard: the N positions it blanked are pairwise distinct and are the      *)
(* blank cells of the puzzle.                                              *)
ClaimedRemoved ==
    [easy |-> EasyRemoved, medium |-> MediumRemoved, hard |-> HardRemoved]

C15_FixedRemovalCount ==
    pc = "generatedFixed"
        => /\ NumFilled(puzzle) = Size * Size - ClaimedRemoved[difficulty]
           /\ \A i, j \in 1 .. ClaimedRemoved[difficulty] :
                 i # j => carve.positions[i] # carve.positions[j]
           /\ { c \in Cells : At(puzzle, c) = Null }
                 = { carve.positions[i] : i \in 1 .. ClaimedRemoved[difficulty] }

C15_Witness ==
    /\ pc = "generatedFixed"
    /\ difficulty = "hard"
    /\ carve.i = HardRemoved
    /\ NumFilled(puzzle) = Size * Size - HardRemoved
(* C16: checkSolution(board, solution) returns true exactly when each of   *)
(* the 81 cells of board equals the cell of solution at its position: it   *)
(* is true for a full grid against itself, false when one cell of either   *)
(* argument holds another digit, false when the board has a blank cell.    *)
C16_TrueIffAllCellsEqual ==
    pc = "checked"
        => /\ pure.returned <=> (\A c \in Cells : At(pure.board, c) = At(pure.solution, c))
           /\ pure.returned <=> pure.board = pure.solution
           /\ (\E c \in Cells : At(pure.board, c) = Null) => ~pure.returned

C16_Witness ==
    /\ pc = "checked"
    /\ ~pure.returned
    /\ At(pure.board, << Size - 1, Size - 1 >>) \in Digits
    /\ At(pure.board, << Size - 1, Size - 1 >>) # At(pure.solution, << Size - 1, Size - 1 >>)
    /\ \A c \in Cells \ { << Size - 1, Size - 1 >> } : At(pure.board, c) = At(pure.solution, c)
(* C17: for a target cell that is empty, isValidPlacement returns false    *)
(* exactly when the digit is in the row, in the column or in the 3x3 box   *)
(* with origin (3 * floor(row / 3), 3 * floor(col / 3)), and true          *)
(* otherwise; the grid is after the call what it was before.               *)
InRow(g, row, num) == \E i \in Idx : g[row][i] = num
InColumn(g, col, num) == \E i \in Idx : g[i][col] = num
InBoxAt(g, originRow, originCol, num) ==
    \E c \in Cells :
        /\ c[1] \in originRow .. (originRow + 2)
        /\ c[2] \in originCol .. (originCol + 2)
        /\ At(g, c) = num

C17_FalseIffDigitInUnit ==
    [][ (/\ pc = "isValidPlacement"
         /\ pc' = "isValidPlacement.return"
         /\ pure.board[pure.row][pure.col] = 0)
        => /\ pure'.board = pure.board
           /\ pure'.returned = FALSE
                 <=> \/ InRow(pure.board, pure.row, pure.num)
                     \/ InColumn(pure.board, pure.col, pure.num)
                     \/ InBoxAt(pure.board, 3 * (pure.row \div 3),
                                3 * (pure.col \div 3), pure.num) ]_vars

C17_Witness ==
    /\ pc = "isValidPlacement.return"
    /\ pure.board[pure.row][pure.col] = 0
    /\ ~pure.returned
    /\ ~InRow(pure.board, pure.row, pure.num)
    /\ ~InColumn(pure.board, pure.col, pure.num)

(* C18, as claimed: the result of isValidPlacement is the same whatever    *)
(* the target cell holds, also when it holds the digit itself.             *)
CellValues == {0} \cup Digits

C18_TargetValueIrrelevant ==
    pc = "isValidPlacement.return"
        => \A v \in CellValues :
              isValidPlacement(Placed(pure.board, pure.row, pure.col, v),
                               pure.row, pure.col, pure.num) = pure.returned

(* C18, amended: the result of isValidSudokuPlacement is the same whatever *)
(* the target cell holds; isValidPlacement returns false when the target   *)
(* cell holds the digit, and otherwise its result is the same for every    *)
(* value of the target cell other than the digit.                          *)
C18_TargetValueIrrelevantInComponent ==
    /\ pc = "isValidSudokuPlacement.return"
          => \A v \in {Null} \cup Digits :
                isValidSudokuPlacement(Placed(pure.board, pure.row, pure.col, v),
                                       pure.row, pure.col, pure.num) = pure.returned
    /\ pc = "isValidPlacement.return"
          => IF pure.board[pure.row][pure.col] = pure.num
             THEN pure.returned = FALSE
             ELSE \A v \in CellValues \ {pure.num} :
                     isValidPlacement(Placed(pure.board, pure.row, pure.col, v),
                                      pure.row, pure.col, pure.num) = pure.returned

C18_Witness ==
    /\ pc = "isValidSudokuPlacement.return"
    /\ pure.board[pure.row][pure.col] = pure.num
    /\ pure.returned
(* C19: generateSolvedBoard terminates whatever digit orders the shuffles  *)
(* give, and when it returns solveBoardRandomly has returned true and no   *)
(* cell of the grid is 0.                                                  *)
C19_TerminatesWithFullGrid ==
    /\ <>(pc = "createPuzzle")
    /\ [](pc = "createPuzzle"
            => /\ running.returned = TRUE
               /\ \A c \in Cells : At(solution, c) # 0)

C19_Witness ==
    /\ pc = "createPuzzle"
    /\ running.fn = "solveBoardRandomly"
    /\ Finished(running)
    /\ running.returned = TRUE
    /\ solution[0][0] # 1
    /\ \A c \in Cells : At(solution, c) # 0
(* C20: at the head of the carving loop of createPuzzle, when the clue     *)
(* count is the target, all 81 positions were tried or 10 removals in a    *)
(* row failed, the loop is left with the puzzle as it is; otherwise a      *)
(* removal is attempted, at a position that was not tried before.  So at   *)
(* most 81 removals are attempted: one per tried position.                 *)
StopCondition ==
    \/ carve.currentClues = carve.targetClues
    \/ Cardinality(carve.triedPositions) = Size * Size
    \/ carve.consecutiveFailures = maxConsecutiveFailures

C20_LoopStopsOnThreeConditions ==
    [][ pc = "createPuzzle.while"
        => IF StopCondition
           THEN pc' = "generated" /\ puzzle' = puzzle /\ carve' = carve
           ELSE /\ pc' = "createPuzzle.count"
                /\ PositionKey(carve'.position[1], carve'.position[2])
                      \notin carve.triedPositions
                /\ carve'.triedPositions = carve.triedPositions
                      \cup { PositionKey(carve'.position[1], carve'.position[2]) }
                /\ Cardinality(carve'.triedPositions) <= Size * Size
                /\ At(puzzle, carve'.position) # Null
                /\ At(puzzle', carve'.position) = Null ]_vars

C20_Witness ==
    /\ pc = "createPuzzle.while"
    /\ carve.currentClues > carve.targetClues
    /\ carve.consecutiveFailures < maxConsecutiveFailures
    /\ Cardinality(carve.triedPositions) = Size * Size
(* C21: an iteration of the carving loop whose solution count was 1 leaves *)
(* the cell blank, currentClues one lower and consecutiveFailures 0; any   *)
(* other iteration leaves the cell with its original digit, currentClues   *)
(* as it was and consecutiveFailures one higher.  At every loop head       *)
(* currentClues is the number of non-blank puzzle cells and                *)
(* consecutiveFailures is at most 10.                                      *)
C21_IterationEffect ==
    pc = "createPuzzle.count"
        => IF count = 1
           THEN /\ At(puzzle', carve.position) = Null
                /\ carve'.currentClues = carve.currentClues - 1
                /\ carve'.consecutiveFailures = 0
           ELSE /\ At(puzzle', carve.position) = At(solution, carve.position)
                /\ carve'.currentClues = carve.currentClues
                /\ carve'.consecutiveFailures = carve.consecutiveFailures + 1

C21_LoopHead ==
    pc = "createPuzzle.while"
        => /\ carve.currentClues = NumFilled(puzzle)
           /\ carve.consecutiveFailures <= maxConsecutiveFailures

C21_CarvingKeepsCount == [][C21_IterationEffect]_vars /\ []C21_LoopHead

C21_Witness ==
    /\ pc = "createPuzzle.while"
    /\ carve.consecutiveFailures > 1
    /\ carve.currentClues < Size * Size
    /\ carve.currentClues = NumFilled(puzzle)
    /\ At(puzzle, carve.position) = At(solution, carve.position)
(* C22: when the uniqueness-checking createPuzzle returns a puzzle with    *)
(* more givens than the target, blanking any one given of the returned     *)
(* puzzle gives a grid for which countSolutions does not return 1.         *)
CountWithout(puz, c) ==
    Return("countSolutions", convertBoardForSolving(Blanked(puz, c[1], c[2])),
           << >>).count

C22_NoGivenRemovable ==
    (pc = "generated" /\ NumFilled(puzzle) > carve.targetClues)
        => \A c \in Cells : At(puzzle, c) # Null => CountWithout(puzzle, c) # 1
(* C23: when an invocation of solveBoard or of solveBoardRandomly returns  *)
(* false the grid is, cell for cell, what it was when the invocation was   *)
(* entered; and no step writes a cell that was not empty when one of the   *)
(* invocations in progress was entered.                                    *)
InSearch == pc \in {"solveBoard", "generateSolvedBoard"}

ReturnsFalse ==
    running.ctl = "loop" /\ running'.ctl = "ret" /\ ~running'.returned

C23_BacktrackingRestores ==
    [][ InSearch
        => /\ ReturnsFalse => running'.board = Top(running.stack).entry
           /\ \A c \in Cells :
                 At(running'.board, c) # At(running.board, c)
                    => \A i \in 1 .. Len(running.stack) :
                          At(running.stack[i].entry, c) = 0 ]_vars

C23_Witness ==
    /\ InSearch
    /\ running.ctl = "ret"
    /\ ~running.returned
    /\ Len(running.stack) > 2
    /\ \E c \in Cells : At(running.board, c) # At(running.arg, c)

----------------------------------------------------------------------------
\* Cell p comes before cell c in row-major order.
Before(p, c) == p[1] < c[1] \/ (p[1] = c[1] /\ p[2] < c[2])

\* Grid a is smaller than grid b in row-major lexicographic order.
LexLess(a, b) ==
    \E c \in Cells :
        /\ At(a, c) < At(b, c)
        /\ \A p \in Cells : Before(p, c) => At(a, p) = At(b, p)

\* The least of a non-empty set of grids.
Least(grids) == CHOOSE g \in grids : \A h \in grids \ {g} : LexLess(g, h)

(* C26: on a grid that has a valid completion, solveSudoku returns the     *)
(* completion that is least in row-major lexicographic order of the digits *)
(* placed in the empty cells; the result is a function of the grid, so two *)
(* calls on equal grids return equal results.                              *)
C26_ReturnsLeastCompletion ==
    (pc = "solved" /\ Completions(Givens(input)) # {})
        => /\ result \in Completions(Givens(input))
           /\ \A g \in Completions(Givens(input)) \ {result} :
                 LexLess(result, g)
           /\ result = Least(Completions(Givens(input)))

C26_Witness ==
    /\ pc = "solved"
    /\ Cardinality(Completions(Givens(input))) > 2
    /\ result = Least(Completions(Givens(input)))
    /\ NumEmpty(input) > 4

----------------------------------------------------------------------------
----------------------------------------------------------------------------
(* The game component of src/unnamed/part_000, which checks every entry    *)
(* against the solution.  ui is the component's state between two events:  *)
(* a handler, the render that follows it and the effects of that render    *)
(* are one step.  The timer, the selected number, the error message and    *)
(* the animations are display state no handler reads back; they are left   *)
(* out.  pending holds the callbacks handed to setTimeout that have not    *)
(* run, each with the difficulty its closure holds; generatedWith is the   *)
(* difficulty the last call of generateSudoku received, pressed the        *)
(* difficulty button that scheduled a callback.                            *)

coreVars == << pc, difficulty, solution, puzzle, carve, count, input, result,
               assigned, running, pure >>

\* selectedCell === null
NoCell == << >>

\* The outcomes of the shuffles in the games the component generates: the
\* digits come out in ascending order at every cell, the positions with the
\* first stride.
GameShuffles == { [k \in 0 .. (Size * Size - 1) |-> Ascending] }

GamePositionOrders == { PositionOrder(PositionStrides[1]) }

\* generateSolvedBoard() for an outcome of the shuffles.
generateSolvedBoardOf(nums) ==
    Return("solveBoardRandomly", EmptyBoard, nums).board

GameSolutions == { generateSolvedBoardOf(nums) : nums \in GameShuffles }

\* createPuzzle(solvedBoard, d), the variant that removes a fixed number of
\* cells: the first cellsToRemove positions are blanked in a clone.
createPuzzleOf(solvedBoard, positions, d) ==
    [row \in Idx |-> [col \in Idx |->
        IF \E i \in 1 .. CellsToRemove(d) : positions[i] = << row, col >>
        THEN Null
        ELSE solvedBoard[row][col]]]

\* The values generateSudoku(d) may return. The variable solution holds the
\* board generateSolvedBoard() returns, computed when the component mounts.
generateSudoku(d) ==
    { [puzzle |-> createPuzzleOf(solution, positions, d),
       solution |-> solution] : positions \in GamePositionOrders }

\* The useState initial values.
Mounted ==
    [difficulty |-> "medium", board |-> << >>, solution |-> << >>,
     initialBoard |-> << >>, selectedCell |-> NoCell, notes |-> {},
     isNoteMode |-> FALSE, isRunning |-> TRUE, isComplete |-> FALSE,
     isLoading |-> FALSE, showSuccessModal |-> FALSE, incorrectCells |-> {},
     pending |-> << >>, generatedWith |-> "none"]

\* useEffect(..., [isComplete]): the success modal follows isComplete when
\* isComplete has changed in the render from u to v.
SuccessModalEffect(u, v) ==
    IF v.isComplete # u.isComplete
    THEN [v EXCEPT !.showSuccessModal = v.isComplete]
    ELSE v

\* newGame() of a render whose difficulty is closureDifficulty: the state is
\* reset and the generation is handed to setTimeout.
newGame(u, closureDifficulty, pressedDifficulty) ==
    [u EXCEPT !.isLoading = TRUE,
              !.isRunning = FALSE,
              !.showSuccessModal = FALSE,
              !.incorrectCells = {},
              !.pending = Append(@, [difficulty |-> closureDifficulty,
                                     pressed |-> pressedDifficulty])]

\* The callback of setTimeout, generateSudoku having returned game.
generated(u, game) ==
    [u EXCEPT !.board = game.puzzle,
              !.solution = game.solution,
              !.initialBoard = game.puzzle,
              !.selectedCell = NoCell,
              !.notes = {},
              !.isComplete = FALSE,
              !.isRunning = TRUE,
              !.isLoading = FALSE,
              !.generatedWith = Head(u.pending).difficulty,
              !.pending = Tail(@)]

handleCellPress(u, row, col) ==
    IF u.isComplete THEN u
    ELSE [u EXCEPT !.selectedCell = << row, col >>]

isNumberCorrectAlways(u, row, col, num) == TRUE

isNumberCorrect(u, row, col, num) == u.solution[row][col] = num

\* initialBoard[row][col] !== null
IsInitialNever(u, row, col) == FALSE

IsInitial(u, row, col) == u.initialBoard[row][col] # Null

\* newBoard.every((row) => row.every((cell) => cell !== null))
isBoardFilled(newBoard) == \A c \in Cells : At(newBoard, c) # Null

\* The notes of cell (row, col) with num toggled.
NotesToggled(notes, row, col, num) ==
    IF << << row, col >>, num >> \in notes
    THEN notes \ { << << row, col >>, num >> }
    ELSE notes \cup { << << row, col >>, num >> }

\* delete newNotes[cellKey]
NotesDeleted(notes, row, col) == { n \in notes : n[1] # << row, col >> }

\* if (isBoardFilled) { if (checkSolution(newBoard, solution)) ... }
CompletedBy(u, newBoard) ==
    IF isBoardFilled(newBoard) /\ checkSolution(newBoard, u.solution)
    THEN [u EXCEPT !.isComplete = TRUE, !.isRunning = FALSE]
    ELSE u

handleNumberInputAt(u, row, col, num) ==
    IF IsInitial(u, row, col) THEN u
    ELSE IF u.isNoteMode
    THEN [u EXCEPT !.notes = NotesToggled(@, row, col, num)]
    ELSE IF u.board[row][col] = num
    THEN [u EXCEPT !.board = Blanked(@, row, col),
                   !.incorrectCells = @ \ { << row, col >> }]
    ELSE IF ~isNumberCorrect(u, row, col, num)
    THEN [u EXCEPT !.board = Placed(@, row, col, num),
                   !.incorrectCells = @ \cup { << row, col >> }]
    ELSE CompletedBy([u EXCEPT !.board = Placed(@, row, col, num),
                               !.incorrectCells = @ \ { << row, col >> }],
                     Placed(u.board, row, col, num))

handleNumberInput(u, num) ==
    IF u.selectedCell = NoCell \/ u.isComplete THEN u
    ELSE handleNumberInputAt(u, u.selectedCell[1], u.selectedCell[2], num)

handleClearAt(u, row, col) ==
    IF IsInitial(u, row, col) THEN u
    ELSE [u EXCEPT !.board = Blanked(@, row, col),
                   !.incorrectCells = @ \ { << row, col >> },
                   !.notes = NotesDeleted(@, row, col)]

handleClear(u) ==
    IF u.selectedCell = NoCell \/ u.isComplete THEN u
    ELSE handleClearAt(u, u.selectedCell[1], u.selectedCell[2])

getHintAt(u, row, col) ==
    IF IsInitial(u, row, col) THEN u
    ELSE [u EXCEPT !.board = Placed(@, row, col, u.solution[row][col]),
                   !.incorrectCells = @ \ { << row, col >> },
                   !.notes = NotesDeleted(@, row, col)]

getHint(u) ==
    IF u.selectedCell = NoCell \/ u.isComplete THEN u
    ELSE getHintAt(u, u.selectedCell[1], u.selectedCell[2])

\* The render of state u: what is shown and what is disabled.
NewButtonNeverDisabled(u) == FALSE

NewButtonDisabled(u) == u.isLoading

ControlDisabled(u) == u.isLoading \/ u.isComplete

\* {isLoading ? <loading indicator> : <difficulty selector, board, pad>}
GameShown(u) == ~u.isLoading

DifficultyButtonDisabled(u) == u.isLoading

NumberPadShown(u) == GameShown(u) /\ ~u.isComplete

\* <Modal visible={showSuccessModal}>: while it is open it covers the screen.
ModalOpen(u) == u.showSuccessModal

\* The presses of the player that are explored: the first given cell and
\* the first cell that is not solved yet; the digit of the solution and the
\* digit after it; notes in the first blank cell of the puzzle only; every
\* difficulty button.
\* The first cell, in row-major order, of a set of cells that is not empty.
FirstCell(cells) ==
    CHOOSE c \in cells : \A d \in cells : ~Before(d, c)

IsGiven(u, c) == At(u.initialBoard, c) # Null

IsUnsolved(u, c) == ~IsGiven(u, c) /\ At(u.board, c) # At(u.solution, c)

FirstGiven(u) == FirstCell({ c \in Cells : IsGiven(u, c) })

FirstBlank(u) == FirstCell({ c \in Cells : ~IsGiven(u, c) })

FirstUnsolved(u) == FirstCell({ c \in Cells : IsUnsolved(u, c) })

PressedCells(u) ==
    {FirstGiven(u)}
        \cup (IF \E c \in Cells : IsUnsolved(u, c)
              THEN {FirstUnsolved(u)}
              ELSE {})

PressedDifficulties == Difficulties

WrongDigit(d) == (d % Size) + 1

PressedNumbers(u) ==
    IF u.selectedCell = NoCell THEN {1}
    ELSE IF u.isNoteMode
    THEN IF u.selectedCell = FirstBlank(u)
         THEN {At(u.solution, u.selectedCell)}
         ELSE {}
    ELSE {At(u.solution, u.selectedCell),
          WrongDigit(At(u.solution, u.selectedCell))}

\* The component after its first commit: useEffect(() => newGame(), []).
InitGame ==
    /\ pc = "game"
    /\ difficulty = "medium"
    /\ solution \in GameSolutions
    /\ puzzle = EmptyBoard
    /\ carve = NoCarve
    /\ count = 0
    /\ input = EmptyBoard
    /\ result = << >>
    /\ assigned = {}
    /\ running = NoRun
    /\ pure = NoPure
    /\ ui = newGame(Mounted, Mounted.difficulty, "none")

\* setTimeout(() => {...}, 100) fires.
generationCallback ==
    /\ pc = "game"
    /\ ui.pending # << >>
    /\ \E game \in generateSudoku(Head(ui.pending).difficulty) :
          ui' = SuccessModalEffect(ui, generated(ui, game))
    /\ UNCHANGED coreVars

\* The New button: onPress={newGame}.
pressNew ==
    /\ pc = "game"
    /\ ~NewButtonDisabled(ui)
    /\ ~ModalOpen(ui)
    /\ ui' = newGame(ui, ui.difficulty, "none")
    /\ UNCHANGED coreVars

\* A difficulty button: onPress={() => { setDifficulty(d); newGame(); }},
\* newGame being the function of the render in which the button is pressed.
pressDifficulty ==
    /\ pc = "game"
    /\ GameShown(ui)
    /\ ~DifficultyButtonDisabled(ui)
    /\ ~ModalOpen(ui)
    /\ \E d \in PressedDifficulties :
          ui' = newGame([ui EXCEPT !.difficulty = d], ui.difficulty, d)
    /\ UNCHANGED coreVars

\* The New Game button of the success modal: onPress={newGame}.
pressModalNewGame ==
    /\ pc = "game"
    /\ ModalOpen(ui)
    /\ ui' = newGame(ui, ui.difficulty, "none")
    /\ UNCHANGED coreVars

\* The View Board button of the success modal.
pressViewBoard ==
    /\ pc = "game"
    /\ ModalOpen(ui)
    /\ ui' = [ui EXCEPT !.showSuccessModal = FALSE]
    /\ UNCHANGED coreVars

\* The pause button: onPress={() => setIsRunning(!isRunning)}.
pressPause ==
    /\ pc = "game"
    /\ ~ControlDisabled(ui)
    /\ ~ModalOpen(ui)
    /\ ui' = [ui EXCEPT !.isRunning = ~@]
    /\ UNCHANGED coreVars

\* The pencil button: onPress={() => setIsNoteMode(!isNoteMode)}.
pressNoteMode ==
    /\ pc = "game"
    /\ ~ControlDisabled(ui)
    /\ ~ModalOpen(ui)
    /\ ui' = [ui EXCEPT !.isNoteMode = ~@]
    /\ UNCHANGED coreVars

pressCell ==
    /\ pc = "game"
    /\ GameShown(ui)
    /\ ~ui.isComplete
    /\ ~ModalOpen(ui)
    /\ \E c \in PressedCells(ui) :
          ui' = handleCellPress(ui, c[1], c[2])
    /\ UNCHANGED coreVars

pressNumber ==
    /\ pc = "game"
    /\ NumberPadShown(ui)
    /\ ~ModalOpen(ui)
    /\ \E num \in PressedNumbers(ui) :
          ui' = SuccessModalEffect(ui, handleNumberInput(ui, num))
    /\ UNCHANGED coreVars

pressClear ==
    /\ pc = "game"
    /\ NumberPadShown(ui)
    /\ ~ModalOpen(ui)
    /\ ui' = handleClear(ui)
    /\ UNCHANGED coreVars

pressHint ==
    /\ pc = "game"
    /\ ~ControlDisabled(ui)
    /\ ~ModalOpen(ui)
    /\ ui' = getHint(ui)
    /\ UNCHANGED coreVars

Playing ==
    \/ generationCallback
    \/ pressNew
    \/ pressDifficulty
    \/ pressModalNewGame
    \/ pressViewBoard
    \/ pressPause
    \/ pressNoteMode
    \/ pressCell
    \/ pressNumber
    \/ pressClear
    \/ pressHint

SpecGame == InitGame /\ [][Playing]_vars

----------------------------------------------------------------------------
(* C24: in the component of part_000 a generation is never started while   *)
(* one is outstanding: a callback is handed to setTimeout only when none   *)
(* is pending and isLoading is false, so at most one callback is pending   *)
(* at any time, and isLoading is true exactly while one is pending.        *)
C24_OneGenerationOutstanding ==
    /\ [](Len(ui.pending) <= 1 /\ (ui.isLoading <=> ui.pending # << >>))
    /\ [][Len(ui'.pending) > Len(ui.pending)
             => ui.pending = << >> /\ ~ui.isLoading]_vars

C24_Witness ==
    /\ ui.isLoading
    /\ Len(ui.pending) = 1
    /\ ui.isComplete

(* C25: within one game the given cells never change: every cell that is   *)
(* non-blank in initialBoard holds the same digit in board, whatever cells *)
(* are pressed and whatever is entered, cleared or hinted, with note mode  *)
(* on or off; initialBoard changes only when a generated puzzle replaces   *)
(* it.                                                                     *)
GivensKept ==
    ui.board # << >>
        => \A c \in Cells : At(ui.initialBoard, c) # Null
                               => At(ui.board, c) = At(ui.initialBoard, c)

C25_GivenCellsNeverChange ==
    /\ []GivensKept
    /\ [][ui'.initialBoard # ui.initialBoard
             => Len(ui'.pending) < Len(ui.pending)]_vars

C25_Witness ==
    /\ ui.selectedCell # NoCell
    /\ IsInitial(ui, ui.selectedCell[1], ui.selectedCell[2])
    /\ ui.isNoteMode
    /\ ui.notes # {}
    /\ ui.incorrectCells # {}
    /\ \E c \in Cells : At(ui.initialBoard, c) = Null
                           /\ At(ui.board, c) = At(ui.solution, c)

(* C28: in the component of part_000, whenever a number input or a hint    *)
(* leaves the board fully filled and equal to the solution, that same      *)
(* action sets isComplete to true and isRunning to false.                  *)
C28_CompletionDetected ==
    [][(/\ ui'.board # ui.board
        /\ isBoardFilled(ui'.board)
        /\ ui'.board = ui'.solution)
          => ui'.isComplete /\ ~ui'.isRunning]_vars

(* C29: pressing a difficulty button starts a game of that difficulty: the *)
(* generateSudoku call of the newGame the press triggers receives the      *)
(* pressed difficulty, and once the puzzle is generated the highlighted    *)
(* difficulty is the one the board was generated with.                     *)
C29_GeneratedWithPressedDifficulty ==
    [][(/\ Len(ui'.pending) < Len(ui.pending)
        /\ Head(ui.pending).pressed # "none")
          => /\ ui'.generatedWith = Head(ui.pending).pressed
             /\ ui'.generatedWith = ui'.difficulty]_vars

(* C30: in the component of part_000, after every action incorrectCells    *)
(* holds exactly the cells whose board value is non-blank and differs from *)
(* the solution.                                                           *)
WrongCells(u) ==
    { c \in Cells : At(u.board, c) # Null /\ At(u.board, c) # At(u.solution, c) }

C30_IncorrectCellsExact ==
    ui.board # << >> => ui.incorrectCells = WrongCells(ui)

(* C30, amended: the same whenever no generation is outstanding; newGame   *)
(* empties incorrectCells at once, the board it refers to being replaced   *)
(* only when the scheduled generation has run.                             *)
C30_IncorrectCellsExactWhenLoaded ==
    ~ui.isLoading => ui.incorrectCells = WrongCells(ui)

C30_Witness ==
    /\ ~ui.isLoading
    /\ ui.incorrectCells # {}
    /\ ui.board # ui.initialBoard
    /\ \E c \in Cells : At(ui.initialBoard, c) = Null
                           /\ At(ui.board, c) = At(ui.solution, c)

----------------------------------------------------------------------------
----------------------------------------------------------------------------
(* The game component of src/unnamed/part_001, which validates the board   *)
(* against the Sudoku rules instead of comparing entries with the          *)
(* solution.  ui is used as for part_000, with invalidCells in the place   *)
(* of incorrectCells; the callback of setTimeout, the effect on            *)
(* isComplete and the notes are the same code as in part_000.              *)

\* The useState initial values.
Mounted_001 ==
    [difficulty |-> "medium", board |-> << >>, solution |-> << >>,
     initialBoard |-> << >>, selectedCell |-> NoCell, notes |-> {},
     isNoteMode |-> FALSE, isRunning |-> TRUE, isComplete |-> FALSE,
     isLoading |-> FALSE, showSuccessModal |-> FALSE, invalidCells |-> {},
     pending |-> << >>, generatedWith |-> "none"]

newGame_001(u, closureDifficulty, pressedDifficulty) ==
    [u EXCEPT !.isLoading = TRUE,
              !.isRunning = FALSE,
              !.invalidCells = {},
              !.pending = Append(@, [difficulty |-> closureDifficulty,
                                     pressed |-> pressedDifficulty])]

\* validateBoard(newBoard): the filled cells whose value, taken out of the
\* board, may not be placed back.
validateBoard(newBoard) ==
    { c \in Cells :
        /\ At(newBoard, c) # Null
        /\ ~isValidSudokuPlacement(Blanked(newBoard, c[1], c[2]), c[1], c[2],
                                   At(newBoard, c)) }

handleCellPress_001(u, row, col) == [u EXCEPT !.selectedCell = << row, col >>]

\* if (isBoardFilled && newInvalidCells.size === 0)
CompletedByRules(u, newBoard, newInvalidCells) ==
    IF isBoardFilled(newBoard) /\ newInvalidCells = {}
    THEN [u EXCEPT !.isComplete = TRUE, !.isRunning = FALSE]
    ELSE u

handleNumberInput_001(u, num) ==
    IF u.selectedCell = NoCell \/ u.isComplete THEN u
    ELSE IF IsInitial(u, u.selectedCell[1], u.selectedCell[2]) THEN u
    ELSE IF u.isNoteMode
    THEN [u EXCEPT !.notes = NotesToggled(@, u.selectedCell[1],
                                          u.selectedCell[2], num)]
    ELSE IF At(u.board, u.selectedCell) = num
    THEN [u EXCEPT
            !.board = Blanked(@, u.selectedCell[1], u.selectedCell[2]),
            !.invalidCells = validateBoard(
                Blanked(u.board, u.selectedCell[1], u.selectedCell[2]))]
    ELSE CompletedByRules(
            [u EXCEPT
               !.board = Placed(@, u.selectedCell[1], u.selectedCell[2], num),
               !.invalidCells = validateBoard(
                   Placed(u.board, u.selectedCell[1], u.selectedCell[2], num))],
            Placed(u.board, u.selectedCell[1], u.selectedCell[2], num),
            validateBoard(
                Placed(u.board, u.selectedCell[1], u.selectedCell[2], num)))

handleClear_001(u) ==
    IF u.selectedCell = NoCell THEN u
    ELSE IF IsInitial(u, u.selectedCell[1], u.selectedCell[2]) THEN u
    ELSE [u EXCEPT
            !.board = Blanked(@, u.selectedCell[1], u.selectedCell[2]),
            !.notes = NotesDeleted(@, u.selectedCell[1], u.selectedCell[2]),
            !.invalidCells = validateBoard(
                Blanked(u.board, u.selectedCell[1], u.selectedCell[2]))]

getHint_001(u) ==
    IF u.selectedCell = NoCell THEN u
    ELSE IF IsInitial(u, u.selectedCell[1], u.selectedCell[2]) THEN u
    ELSE [u EXCEPT
            !.board = Placed(@, u.selectedCell[1], u.selectedCell[2],
                             At(u.solution, u.selectedCell)),
            !.notes = NotesDeleted(@, u.selectedCell[1], u.selectedCell[2]),
            !.invalidCells = validateBoard(
                Placed(u.board, u.selectedCell[1], u.selectedCell[2],
                       At(u.solution, u.selectedCell)))]

\* The modal is rendered in the branch that is shown when isLoading is false.
ModalOpen_001(u) == ~u.isLoading /\ u.showSuccessModal

\* The component after its first commit: useEffect(() => newGame(), []).
InitGame_001 ==
    /\ pc = "game_001"
    /\ difficulty = "medium"
    /\ solution \in GameSolutions
    /\ puzzle = EmptyBoard
    /\ carve = NoCarve
    /\ count = 0
    /\ input = EmptyBoard
    /\ result = << >>
    /\ assigned = {}
    /\ running = NoRun
    /\ pure = NoPure
    /\ ui = newGame_001(Mounted_001, Mounted_001.difficulty, "none")

generationCallback_001 ==
    /\ pc = "game_001"
    /\ ui.pending # << >>
    /\ \E game \in generateSudoku(Head(ui.pending).difficulty) :
          ui' = SuccessModalEffect(ui, generated(ui, game))
    /\ UNCHANGED coreVars

\* The New button: disabled={isLoading}.
pressNew_001 ==
    /\ pc = "game_001"
    /\ ~ui.isLoading
    /\ ~ModalOpen_001(ui)
    /\ ui' = newGame_001(ui, ui.difficulty, "none")
    /\ UNCHANGED coreVars

pressDifficulty_001 ==
    /\ pc = "game_001"
    /\ ~ui.isLoading
    /\ ~ModalOpen_001(ui)
    /\ \E d \in PressedDifficulties :
          ui' = newGame_001([ui EXCEPT !.difficulty = d], ui.difficulty, d)
    /\ UNCHANGED coreVars

pressModalNewGame_001 ==
    /\ pc = "game_001"
    /\ ModalOpen_001(ui)
    /\ ui' = newGame_001(ui, ui.difficulty, "none")
    /\ UNCHANGED coreVars

pressViewBoard_001 ==
    /\ pc = "game_001"
    /\ ModalOpen_001(ui)
    /\ ui' = [ui EXCEPT !.showSuccessModal = FALSE]
    /\ UNCHANGED coreVars

\* The pause and the pencil button: disabled={isLoading}.
pressPause_001 ==
    /\ pc = "game_001"
    /\ ~ui.isLoading
    /\ ~ModalOpen_001(ui)
    /\ ui' = [ui EXCEPT !.isRunning = ~@]
    /\ UNCHANGED coreVars

pressNoteMode_001 ==
    /\ pc = "game_001"
    /\ ~ui.isLoading
    /\ ~ModalOpen_001(ui)
    /\ ui' = [ui EXCEPT !.isNoteMode = ~@]
    /\ UNCHANGED coreVars

\* The cells, the number pad and the Clear button are shown and enabled
\* whenever isLoading is false; the hint button is disabled={isLoading}.
pressCell_001 ==
    /\ pc = "game_001"
    /\ ~ui.isLoading
    /\ ~ModalOpen_001(ui)
    /\ \E c \in PressedCells(ui) :
          ui' = handleCellPress_001(ui, c[1], c[2])
    /\ UNCHANGED coreVars

pressNumber_001 ==
    /\ pc = "game_001"
    /\ ~ui.isLoading
    /\ ~ModalOpen_001(ui)
    /\ \E num \in PressedNumbers(ui) :
          ui' = SuccessModalEffect(ui, handleNumberInput_001(ui, num))
    /\ UNCHANGED coreVars

pressClear_001 ==
    /\ pc = "game_001"
    /\ ~ui.isLoading
    /\ ~ModalOpen_001(ui)
    /\ ui' = handleClear_001(ui)
    /\ UNCHANGED coreVars

pressHint_001 ==
    /\ pc = "game_001"
    /\ ~ui.isLoading
    /\ ~ModalOpen_001(ui)
    /\ ui' = getHint_001(ui)
    /\ UNCHANGED coreVars

Playing_001 ==
    \/ generationCallback_001
    \/ pressNew_001
    \/ pressDifficulty_001
    \/ pressModalNewGame_001
    \/ pressViewBoard_001
    \/ pressPause_001
    \/ pressNoteMode_001
    \/ pressCell_001
    \/ pressNumber_001
    \/ pressClear_001
    \/ pressHint_001

SpecGame_001 == InitGame_001 /\ [][Playing_001]_vars

(* C27: in the component of part_001, in every reachable state in which    *)
(* isComplete is true the board is fully filled and equals the solution    *)
(* cell for cell, whatever is entered, cleared, hinted or pressed after    *)
(* the puzzle has been completed.                                          *)
C27_CompleteMeansSolved ==
    ui.isComplete => isBoardFilled(ui.board) /\ ui.board = ui.solution

====
